---------------------------- MODULE Spec2Model ----------------------------
(***************************************************************************)
(* A model of the collage mixer (src/services/geminiService.ts): the      *)
(* image transforms of useImageProcessor (mixImages, autoCrop,            *)
(* letterboxImage, flipImage, manualCrop) and the ImageCropper component  *)
(* that drives them from its event handlers.                              *)
(*                                                                         *)
(* Numbers of the program are JavaScript doubles.  The model computes     *)
(* with exact rationals <<n, d>> (d > 0, lowest terms): a division is a   *)
(* rational, an assignment to canvas.width / canvas.height truncates to   *)
(* an integer as the DOM attribute does.  The rounding error of doubles   *)
(* (of the order of 1e-13 pixel) is not modelled.                         *)
(***************************************************************************)
EXTENDS Integers, Sequences, FiniteSets, TLC

VARIABLES mix, lb, ac, fl, cr, app, vt, gs

vars == <<mix, lb, ac, fl, cr, app, vt, gs>>

(***************************************************************************)
(* Bounds of the model                                                     *)
(***************************************************************************)
\* mixImages: the canvas is at most MaxCanvas x MaxCanvas pixels
MaxCanvas == 4
\* mixImages: padding ranges over 0..MaxPad
MaxPad == 1
\* mixImages: rows and cols range over 1..MaxGrid
MaxGrid == 2
\* mixImages: at most MaxImages cells of the grid hold an image
MaxImages == 2

(***************************************************************************)
(* Exact rational arithmetic                                               *)
(***************************************************************************)
Abs(n) == IF n < 0 THEN -n ELSE n

Min(a, b) == IF a < b THEN a ELSE b

Max(a, b) == IF a > b THEN a ELSE b

RECURSIVE Gcd(_, _)
Gcd(a, b) == IF b = 0 THEN a ELSE Gcd(b, a % b)

\* the rational n/d in lowest terms with a positive denominator
Rat(n, d) ==
    LET s == IF d < 0 THEN -1 ELSE 1
        g == Gcd(Abs(n), Abs(d))
    IN  <<(s * n) \div g, (s * d) \div g>>

RInt(n) == <<n, 1>>

\* sums are taken over the least common denominator
RAdd(a, b) ==
    LET g == Gcd(a[2], b[2])
    IN  Rat(a[1] * (b[2] \div g) + b[1] * (a[2] \div g),
            a[2] * (b[2] \div g))

RSub(a, b) == RAdd(a, <<-b[1], b[2]>>)

\* products cancel common factors across the fractions first
RMul(a, b) ==
    LET g == Gcd(Abs(a[1]), b[2])
        k == Gcd(Abs(b[1]), a[2])
    IN  Rat((a[1] \div g) * (b[1] \div k), (a[2] \div k) * (b[2] \div g))

\* a / b, for b # 0
RDiv(a, b) == RMul(a, Rat(b[2], b[1]))

RLe(a, b) == a[1] * b[2] <= b[1] * a[2]

RLt(a, b) == a[1] * b[2] < b[1] * a[2]

RMin(a, b) == IF RLt(b, a) THEN b ELSE a

RMax(a, b) == IF RLt(a, b) THEN b ELSE a

\* truncation toward zero of a non-negative rational
RFloor(a) == a[1] \div a[2]


ROne == RInt(1)

RZero == RInt(0)

(***************************************************************************)
(* mixImages (useImageProcessor)                                           *)
(*                                                                         *)
(* The canvas is a function from pixels <<px, py>> to the sequence of      *)
(* layers composited on the pixel: <<id, coverage>>, id 0 being the       *)
(* background fill and id k >= 1 a cell image.  drawImage with a          *)
(* fractional destination rectangle is anti-aliased: a pixel the          *)
(* rectangle covers in part is blended source-over with that coverage, a  *)
(* pixel it covers in full is replaced (grid images are opaque: they come *)
(* out of letterboxImage, which fills its canvas first).                  *)
(***************************************************************************)
\* an empty cell of the grid (createEmptyGrid fills with null)
null == 0

\* the layer id of the background fill
backgroundColor == 0

\* ctx.fillRect(0, 0, finalWidth, finalHeight) with the background colour
FillRect(finalWidth, finalHeight) ==
    [p \in (0 .. finalWidth - 1) \X (0 .. finalHeight - 1) |->
        << <<backgroundColor, ROne>> >>]

\* the length of the part of the pixel interval [px, px+1) inside [lo, lo+len)
Overlap(px, lo, len) ==
    LET a == RMax(RInt(px), lo)
        b == RMin(RInt(px + 1), RAdd(lo, len))
    IN  IF RLt(a, b) THEN RSub(b, a) ELSE RZero

\* ctx.drawImage(img, dx, dy, dw, dh) onto the canvas
DrawImage(canvas, img, dx, dy, dw, dh) ==
    [p \in DOMAIN canvas |->
        LET cov == RMul(Overlap(p[1], dx, dw), Overlap(p[2], dy, dh))
        IN  IF cov = RZero THEN canvas[p]
            ELSE IF cov = ROne THEN << <<img, ROne>> >>
            ELSE Append(canvas[p], <<img, cov>>)]

totalPadding(padding, n) == padding * (n + 1)

\* contentWidth = finalWidth - totalPaddingX (and the same in y)
contentSize(finalSize, padding, n) == finalSize - totalPadding(padding, n)

\* the early return: "Padding is too large for the given dimensions"
PaddingTooLargeLt(contentWidth, contentHeight) ==
    contentWidth < 0 \/ contentHeight < 0

PaddingTooLarge(contentWidth, contentHeight) ==
    contentWidth <= 0 \/ contentHeight <= 0

\* cellWidth = contentWidth / cols (and the same in y)
cellSize(content, n) == RDiv(RInt(content), RInt(n))

\* dx = padding + c * (cellWidth + padding) (and the same in y)
cellOffsetNoGap(padding, c, cell) ==
    RAdd(RInt(padding), RMul(RInt(c), cell))

cellOffset(padding, c, cell) ==
    RAdd(RInt(padding), RMul(RInt(c), RAdd(cell, RInt(padding))))

\* the rectangle the .then callback of cell (r, c) draws into
CellRect(a, r, c) ==
    LET cw == cellSize(contentSize(a.finalWidth, a.padding, a.cols), a.cols)
        ch == cellSize(contentSize(a.finalHeight, a.padding, a.rows), a.rows)
    IN  [r |-> r, c |-> c,
         dx |-> cellOffset(a.padding, c, cw),
         dy |-> cellOffset(a.padding, r, ch),
         dw |-> cw, dh |-> ch]

Cells(rows, cols) == (0 .. rows - 1) \X (0 .. cols - 1)

\* the grids of the model: cell (r, c) is empty or holds its own image
Grids(rows, cols) ==
    {[rc \in Cells(rows, cols) |->
         IF rc \in S THEN rc[1] * cols + rc[2] + 1 ELSE null] :
        S \in {T \in SUBSET Cells(rows, cols) : Cardinality(T) <= MaxImages}}

MixArgs ==
    UNION {
        {[gridImages |-> g, cols |-> cols, rows |-> rows,
          finalWidth |-> w, finalHeight |-> h, padding |-> p] :
            g \in Grids(rows, cols), w \in 1 .. MaxCanvas,
            h \in 1 .. MaxCanvas, p \in 0 .. MaxPad} :
        rows \in 1 .. MaxGrid, cols \in 1 .. MaxGrid}

NoCanvas == <<>>

MixIdle ==
    [phase |-> "idle", args |-> <<>>, canvas |-> NoCanvas, pending |-> {},
     loaded |-> {}, drawn |-> {}, result |-> NoCanvas]

MixInit ==
    \E a \in MixArgs :
        mix = [MixIdle EXCEPT !.phase = "called", !.args = a]

\* mixImages up to `await Promise.all(promises)`: the canvas is created and
\* filled, and one loadImage is started per non-empty cell
MixCall ==
    /\ mix.phase = "called"
    /\ LET a == mix.args
           canvas == FillRect(a.finalWidth, a.finalHeight)
       IN  IF PaddingTooLarge(contentSize(a.finalWidth, a.padding, a.cols),
                              contentSize(a.finalHeight, a.padding, a.rows))
           THEN mix' = [mix EXCEPT !.phase = "done", !.canvas = canvas,
                                   !.result = canvas]
           ELSE mix' = [mix EXCEPT !.phase = "loading", !.canvas = canvas,
                           !.pending = {rc \in Cells(a.rows, a.cols) :
                                           a.gridImages[rc] # null}]
    /\ UNCHANGED <<lb, ac, fl, cr, app, vt, gs>>

\* one loadImage promise resolves: its .then callback draws the cell
MixImageLoaded(rc) ==
    /\ mix.phase = "loading"
    /\ rc \in mix.pending
    /\ LET rect == CellRect(mix.args, rc[1], rc[2])
       IN  mix' = [mix EXCEPT
               !.pending = @ \ {rc},
               !.loaded = @ \cup {rc},
               !.drawn = @ \cup {rect},
               !.canvas = DrawImage(@, mix.args.gridImages[rc],
                                    rect.dx, rect.dy, rect.dw, rect.dh)]
    /\ UNCHANGED <<lb, ac, fl, cr, app, vt, gs>>

\* one loadImage promise rejects: .catch logs, nothing is drawn
MixImageFailed(rc) ==
    /\ mix.phase = "loading"
    /\ rc \in mix.pending
    /\ mix' = [mix EXCEPT !.pending = @ \ {rc}]
    /\ UNCHANGED <<lb, ac, fl, cr, app, vt, gs>>

\* Promise.all has settled: return canvas.toDataURL('image/png')
MixReturn ==
    /\ mix.phase = "loading"
    /\ mix.pending = {}
    /\ mix' = [mix EXCEPT !.phase = "done", !.result = mix.canvas]
    /\ UNCHANGED <<lb, ac, fl, cr, app, vt, gs>>

MixNext ==
    \/ MixCall
    \/ \E rc \in Cells(MaxGrid, MaxGrid) : MixImageLoaded(rc)
    \/ \E rc \in Cells(MaxGrid, MaxGrid) : MixImageFailed(rc)
    \/ MixReturn


(***************************************************************************)
(* letterboxImage (useImageProcessor)                                      *)
(***************************************************************************)
\* letterboxImage: image sides range over 1..MaxImgDim and the sides around
\* the output limit
MaxImgDim == 3
\* letterboxImage: the target aspect ratio is n/d with n, d in 1..MaxRatio
\* (and 7)
MaxRatio == 3

\* the 1500 of Math.min(1500 / canvasWidth, 1500 / canvasHeight, 1)
maxOutput == 1500

ImgDims ==
    (1 .. MaxImgDim)
        \cup {maxOutput - 1, maxOutput, maxOutput + 1, 2 * maxOutput + 1}

\* 7 does not divide 1500: with it the scaled canvas has fractional sides,
\* which the canvas.width / canvas.height assignments truncate
RatioTerms == (1 .. MaxRatio) \cup {7}

AspectRatios == {Rat(n, d) : n \in RatioTerms, d \in RatioTerms}

\* imgRatio > targetAspectRatio: the canvas grows in height, else in width
growsInHeightSwapped(imgRatio, targetAspectRatio) ==
    RLt(imgRatio, targetAspectRatio)

growsInHeight(imgRatio, targetAspectRatio) ==
    RLt(targetAspectRatio, imgRatio)

\* scale = Math.min(1500 / canvasWidth, 1500 / canvasHeight, 1)
letterboxScaleUncapped(canvasWidth, canvasHeight) ==
    RMin(RDiv(RInt(maxOutput), canvasWidth),
         RDiv(RInt(maxOutput), canvasHeight))

letterboxScale(canvasWidth, canvasHeight) ==
    RMin(RMin(RDiv(RInt(maxOutput), canvasWidth),
              RDiv(RInt(maxOutput), canvasHeight)),
         ROne)

\* the geometry letterboxImage computes for an img.width x img.height image
letterboxImage(width, height, targetAspectRatio) ==
    LET imgRatio == RDiv(RInt(width), RInt(height))
        tall == growsInHeight(imgRatio, targetAspectRatio)
        canvasWidth == IF tall THEN RInt(width)
                       ELSE RMul(RInt(height), targetAspectRatio)
        canvasHeight == IF tall THEN RDiv(RInt(width), targetAspectRatio)
                        ELSE RInt(height)
        scale == letterboxScale(canvasWidth, canvasHeight)
        \* canvas.width / canvas.height are integer attributes
        cw == RFloor(RMul(canvasWidth, scale))
        ch == RFloor(RMul(canvasHeight, scale))
        scaledImgWidth == RMul(RInt(width), scale)
        scaledImgHeight == RMul(RInt(height), scale)
    IN  [canvasWidth |-> canvasWidth, canvasHeight |-> canvasHeight,
         scale |-> scale, width |-> cw, height |-> ch,
         scaledImgWidth |-> scaledImgWidth,
         scaledImgHeight |-> scaledImgHeight,
         offsetX |-> RDiv(RSub(RInt(cw), scaledImgWidth), RInt(2)),
         offsetY |-> RDiv(RSub(RInt(ch), scaledImgHeight), RInt(2))]

LbIdle == [phase |-> "idle", img |-> <<>>, target |-> <<>>, out |-> <<>>]

LbInit ==
    \E w \in ImgDims, h \in ImgDims, t \in AspectRatios :
        lb = [LbIdle EXCEPT !.phase = "called",
                            !.img = [width |-> w, height |-> h],
                            !.target = t]

\* loadImage resolves: the canvas is sized, filled and the image drawn
LbImageLoaded ==
    /\ lb.phase = "called"
    /\ lb' = [lb EXCEPT !.phase = "done",
                 !.out = letterboxImage(lb.img.width, lb.img.height, lb.target)]
    /\ UNCHANGED <<mix, ac, fl, cr, app, vt, gs>>

\* loadImage rejects: letterboxImage rejects
LbImageFailed ==
    /\ lb.phase = "called"
    /\ lb' = [lb EXCEPT !.phase = "rejected"]
    /\ UNCHANGED <<mix, ac, fl, cr, app, vt, gs>>

LbNext == LbImageLoaded \/ LbImageFailed

(***************************************************************************)
(* hexToRgb and autoCrop (useImageProcessor)                               *)
(*                                                                         *)
(* An image is [width, height, data]: data[y * width + x] is the pixel    *)
(* [r, g, b, a] that getImageData returns for (x, y).  A string is the    *)
(* sequence of its characters.                                            *)
(***************************************************************************)
\* autoCrop: image sides range over 1..MaxSide
MaxSide == 3
\* autoCrop: an image has at most MaxPixels pixels
MaxPixels == 9

\* tolerance: number = 20
tolerance == 20

HexDigits ==
    [ch \in {"0", "1", "2", "3", "4", "5", "6", "7", "8", "9",
             "a", "b", "c", "d", "e", "f", "A", "B", "C", "D", "E", "F"} |->
        CASE ch = "0" -> 0 [] ch = "1" -> 1 [] ch = "2" -> 2 [] ch = "3" -> 3
          [] ch = "4" -> 4 [] ch = "5" -> 5 [] ch = "6" -> 6 [] ch = "7" -> 7
          [] ch = "8" -> 8 [] ch = "9" -> 9
          [] ch \in {"a", "A"} -> 10 [] ch \in {"b", "B"} -> 11
          [] ch \in {"c", "C"} -> 12 [] ch \in {"d", "D"} -> 13
          [] ch \in {"e", "E"} -> 14 [] ch \in {"f", "F"} -> 15]

\* the value no match yields
NoRgb == [r |-> -1, g |-> -1, b |-> -1]

\* /^#?([a-f\d]{2})([a-f\d]{2})([a-f\d]{2})$/i and parseInt(.., 16)
hexToRgb(hex) ==
    LET digits == IF Len(hex) > 0 /\ hex[1] = "#" THEN Tail(hex) ELSE hex
        byte(i) == 16 * HexDigits[digits[i]] + HexDigits[digits[i + 1]]
    IN  IF Len(digits) = 6 /\ \A i \in 1 .. 6 : digits[i] \in DOMAIN HexDigits
        THEN [r |-> byte(1), g |-> byte(3), b |-> byte(5)]
        ELSE NoRgb

\* const cropColor = cropColorHex ? hexToRgb(cropColorHex) : null
\* (an omitted argument and the empty string are both falsy)
cropColorOf(cropColorHex) ==
    IF cropColorHex.given /\ Len(cropColorHex.hex) > 0
    THEN hexToRgb(cropColorHex.hex)
    ELSE NoRgb

Sq(n) == n * n

\* distance > tolerance, as distance^2 > tolerance^2 (both are >= 0)
farFromColorGe(px, cropColor) ==
    Sq(px.r - cropColor.r) + Sq(px.g - cropColor.g) + Sq(px.b - cropColor.b)
        >= Sq(tolerance)

farFromColor(px, cropColor) ==
    Sq(px.r - cropColor.r) + Sq(px.g - cropColor.g) + Sq(px.b - cropColor.b)
        > Sq(tolerance)

\* the isContent flag of the scan
isContentAlphaIgnored(px, cropColor) ==
    IF cropColor # NoRgb
    THEN farFromColor(px, cropColor)
    ELSE px.a > 0

isContent(px, cropColor) ==
    IF cropColor # NoRgb
    THEN farFromColor(px, cropColor) /\ px.a > 0
    ELSE px.a > 0

\* the scan of the pixels i, i+1, ... in row-major order, box being
\* [minX, minY, maxX, maxY] so far
RECURSIVE scanPixels(_, _, _, _)
scanPixels(img, cropColor, i, box) ==
    IF i >= img.width * img.height THEN box
    ELSE LET x == i % img.width
             y == i \div img.width
         IN  scanPixels(img, cropColor, i + 1,
                 IF isContent(img.data[i], cropColor)
                 THEN [minX |-> IF x < box.minX THEN x ELSE box.minX,
                       maxX |-> IF x > box.maxX THEN x ELSE box.maxX,
                       minY |-> IF y < box.minY THEN y ELSE box.minY,
                       maxY |-> IF y > box.maxY THEN y ELSE box.maxY]
                 ELSE box)

\* if (maxX === -1) return imageDataUrl
nothingFound(box) == box.maxX = -1

\* cropCtx.drawImage(canvas, sx, sy, sw, sh, 0, 0, sw, sh) into a canvas of
\* sw x sh pixels
cropCanvas(img, sx, sy, sw, sh) ==
    [width |-> sw, height |-> sh,
     data |-> [i \in 0 .. sw * sh - 1 |->
                  img.data[(sy + (i \div sw)) * img.width + sx + (i % sw)]]]

\* autoCrop: [same |-> TRUE] when the input data URL itself is returned,
\* else the re-encoded cropped canvas
autoCrop(img, cropColorHex) ==
    LET box == scanPixels(img, cropColorOf(cropColorHex), 0,
                   [minX |-> img.width, minY |-> img.height,
                    maxX |-> -1, maxY |-> -1])
    IN  IF nothingFound(box)
        THEN [same |-> TRUE, box |-> box, image |-> img]
        ELSE [same |-> FALSE, box |-> box,
              image |-> cropCanvas(img, box.minX, box.minY,
                                   box.maxX - box.minX + 1,
                                   box.maxY - box.minY + 1)]

\* the pixels of the model: transparent, and two opaque colours at distance
\* 20 and 21 from white
Pixels ==
    {[r |-> 0, g |-> 0, b |-> 0, a |-> 0],
     [r |-> 235, g |-> 255, b |-> 255, a |-> 255],
     [r |-> 234, g |-> 255, b |-> 255, a |-> 255]}

ImageSizes ==
    {wh \in (1 .. MaxSide) \X (1 .. MaxSide) : wh[1] * wh[2] <= MaxPixels}

Images ==
    UNION {
        {[width |-> wh[1], height |-> wh[2], data |-> d] :
            d \in [0 .. wh[1] * wh[2] - 1 -> Pixels]} :
        wh \in ImageSizes}

\* no colour, the empty string, white in two spellings, a 3-digit colour
CropColors ==
    {[given |-> FALSE, hex |-> <<>>],
     [given |-> TRUE, hex |-> <<>>],
     [given |-> TRUE, hex |-> <<"#", "F", "F", "F", "F", "F", "F">>],
     [given |-> TRUE, hex |-> <<"f", "f", "f", "f", "f", "f">>],
     [given |-> TRUE, hex |-> <<"#", "F", "F", "F">>]}

AcIdle == [phase |-> "idle", img |-> <<>>, cropColorHex |-> <<>>, out |-> <<>>]

AcInit ==
    \E img \in Images, c \in CropColors :
        ac = [AcIdle EXCEPT !.phase = "called", !.img = img,
                            !.cropColorHex = c]

\* loadImage resolves: the pixels are scanned and the result returned
AcImageLoaded ==
    /\ ac.phase = "called"
    /\ ac' = [ac EXCEPT !.phase = "done",
                        !.out = autoCrop(ac.img, ac.cropColorHex)]
    /\ UNCHANGED <<mix, lb, fl, cr, app, vt, gs>>

\* loadImage rejects: autoCrop rejects
AcImageFailed ==
    /\ ac.phase = "called"
    /\ ac' = [ac EXCEPT !.phase = "rejected"]
    /\ UNCHANGED <<mix, lb, fl, cr, app, vt, gs>>

AcNext == AcImageLoaded \/ AcImageFailed

(***************************************************************************)
(* flipImage (useImageProcessor)                                           *)
(***************************************************************************)
\* flipImage: the cropper flips the image it shows at most MaxFlips times
MaxFlips == 2

\* the canvas transform after ctx.translate and ctx.scale: the source
\* point (u, v) is drawn at (sx * u + tx, sy * v + ty)
flipTransformNoTranslate(direction, width, height) ==
    IF direction = "horizontal"
    THEN [tx |-> 0, ty |-> 0, sx |-> -1, sy |-> 1]
    ELSE [tx |-> 0, ty |-> 0, sx |-> 1, sy |-> -1]

flipTransform(direction, width, height) ==
    IF direction = "horizontal"
    THEN [tx |-> width, ty |-> 0, sx |-> -1, sy |-> 1]
    ELSE [tx |-> 0, ty |-> height, sx |-> 1, sy |-> -1]

\* the canvas pixel on which source pixel [u, u+1) lands under s * u + t
destPixel(u, s, t) == Min(s * u + t, s * (u + 1) + t)

\* a canvas pixel nothing was drawn on
transparent == [r |-> 0, g |-> 0, b |-> 0, a |-> 0]

\* ctx.drawImage(img, 0, 0) under the transform m, on a canvas of the size
\* of the image
drawTransformed(img, m) ==
    [width |-> img.width, height |-> img.height,
     data |-> [i \in 0 .. img.width * img.height - 1 |->
        LET x == i % img.width
            y == i \div img.width
            src == {uv \in (0 .. img.width - 1) \X (0 .. img.height - 1) :
                       /\ destPixel(uv[1], m.sx, m.tx) = x
                       /\ destPixel(uv[2], m.sy, m.ty) = y}
        IN  IF src = {} THEN transparent
            ELSE LET uv == CHOOSE uv \in src : TRUE
                 IN  img.data[uv[2] * img.width + uv[1]]]]

flipImage(img, direction) ==
    drawTransformed(img, flipTransform(direction, img.width, img.height))

\* the images flipped in the model: transparent and opaque pixels
FlipImages ==
    UNION {
        {[width |-> wh[1], height |-> wh[2], data |-> d] :
            d \in [0 .. wh[1] * wh[2] - 1 ->
                      {transparent, [r |-> 234, g |-> 255, b |-> 255, a |-> 255]}]} :
        wh \in ImageSizes}

FlIdle == [phase |-> "idle", trail |-> <<>>, directions |-> <<>>]

\* trail is the sequence of images: the input, then the result of each flip
FlInit ==
    \E img \in FlipImages :
        fl = [FlIdle EXCEPT !.phase = "ready", !.trail = <<img>>]

\* flipImage on the last result: loadImage resolves and the flipped canvas
\* is returned
FlImageLoaded(direction) ==
    /\ fl.phase = "ready"
    /\ Len(fl.directions) < MaxFlips
    /\ fl' = [fl EXCEPT
           !.trail = Append(@, flipImage(fl.trail[Len(fl.trail)], direction)),
           !.directions = Append(@, direction)]
    /\ UNCHANGED <<mix, lb, ac, cr, app, vt, gs>>

\* loadImage rejects: flipImage rejects
FlImageFailed ==
    /\ fl.phase = "ready"
    /\ fl' = [fl EXCEPT !.phase = "rejected"]
    /\ UNCHANGED <<mix, lb, ac, cr, app, vt, gs>>

FlNext ==
    \/ \E direction \in {"horizontal", "vertical"} : FlImageLoaded(direction)
    \/ FlImageFailed

(***************************************************************************)
(* App state used by the ImageCropper, and the ImageCropper component      *)
(*                                                                         *)
(* In the component model an image (a data URL) is [width, height, fh,    *)
(* fv, lb]: its size, whether it is mirrored horizontally / vertically    *)
(* with respect to the image the cropper was opened on, and whether it is *)
(* the output of letterboxImage.  What autoCrop cuts away depends on the  *)
(* pixels, so its result is any image not larger than its input.  Crop    *)
(* box coordinates and drag distances are whole pixels.                   *)
(***************************************************************************)
\* ImageCropper: the image edited is at most MaxCropWidth x MaxCropHeight
\* pixels
MaxCropWidth == 2
MaxCropHeight == 1
\* ImageCropper: one drag step moves the pointer by at most MaxDelta pixels
MaxDelta == 1
\* App: a cell is clicked while the collection holds fewer than MaxCollection
\* images
MaxCollection == 1
\* ImageCropper: a handler is started while fewer than MaxPending transforms
\* and image loads are outstanding
MaxPending == 2

NoImage == [width |-> 0, height |-> 0, fh |-> FALSE, fv |-> FALSE, lb |-> FALSE]

NoCell == <<-1, -1>>

\* flipImage on a component image
FlipOf(img, direction) ==
    IF direction = "horizontal" THEN [img EXCEPT !.fh = ~@]
    ELSE [img EXCEPT !.fv = ~@]

\* the possible results of autoCrop on a component image: the input itself
\* (nothing found) or the pixels of a rectangle within it
AutoCropResults(img) ==
    {[img EXCEPT !.width = w, !.height = h] :
        w \in 1 .. img.width, h \in 1 .. img.height}

\* manualCrop: a canvas of cropBox.width x cropBox.height
ManualCropOf(img, cropBox) ==
    [img EXCEPT !.width = cropBox.width, !.height = cropBox.height]

\* letterboxImage on a component image
LetterboxOf(img, aspectRatio) ==
    LET o == letterboxImage(img.width, img.height, aspectRatio)
    IN  [img EXCEPT !.width = o.width, !.height = o.height, !.lb = TRUE]

\* const cellAspectRatio = useMemo(...)
cellAspectRatio(a) ==
    LET cw == contentSize(a.finalWidth, a.padding, a.cols)
        ch == contentSize(a.finalHeight, a.padding, a.rows)
    IN  IF cw <= 0 \/ ch <= 0 THEN ROne
        ELSE RDiv(cellSize(cw, a.cols), cellSize(ch, a.rows))

\* handleImageCropped as created by the render whose state was `closure`,
\* called when the App state is `a`: the grid and the collection test are
\* the closure's, setCollection(prev => ...) works on the current value
handleImageCropped(a, closure, croppedDataUrl) ==
    LET set == closure.activeCell # NoCell
        inCollection == \E i \in 1 .. Len(closure.collection) :
                            closure.collection[i] = croppedDataUrl
    IN  [a EXCEPT
            !.gridImages = IF set
                           THEN [closure.gridImages EXCEPT
                                    ![closure.activeCell] = croppedDataUrl]
                           ELSE @,
            !.collection = IF set /\ ~inCollection
                           THEN <<croppedDataUrl>> \o @ ELSE @,
            !.isCropModalOpen = FALSE,
            !.imageToProcess = NoImage,
            !.activeCell = NoCell]

\* {isCropModalOpen && imageToProcess && <ImageCropper ... />}
CropperMounted == app.isCropModalOpen /\ app.imageToProcess # NoImage

Box(x, y, w, h) == [x |-> x, y |-> y, width |-> w, height |-> h]

\* the clamp at the end of handleInteractionMove, one axis: pos, len of the
\* new box and the image's extent on that axis
clampAxis(pos, len, extent) ==
    LET p1 == IF len < 0 THEN pos + len ELSE pos
        l1 == IF len < 0 THEN Abs(len) ELSE len
        p2 == Max(0, Min(p1, extent - l1))
    IN  <<p2, Min(l1, extent - p2)>>

\* type.includes('l') etc.: the handle types are 'move', 'tl', 'tr', 'bl', 'br'
HandleTypes == {"move", "tl", "tr", "bl", "br"}

includes(type, ch) ==
    CASE ch = "l" -> type \in {"tl", "bl"}
      [] ch = "r" -> type \in {"tr", "br"}
      [] ch = "t" -> type \in {"tl", "tr"}
      [] ch = "b" -> type \in {"bl", "br"}

\* the box handleInteractionMove computes from the interaction's start box,
\* the pointer distance in image pixels and the imageSize of its closure
movedBox(type, startBox, deltaX, deltaY, imageSize) ==
    LET nx == IF type = "move" \/ includes(type, "l")
              THEN startBox.x + deltaX ELSE startBox.x
        nw == IF type = "move" THEN startBox.width
              ELSE IF includes(type, "l") THEN startBox.width - deltaX
              ELSE IF includes(type, "r") THEN startBox.width + deltaX
              ELSE startBox.width
        ny == IF type = "move" \/ includes(type, "t")
              THEN startBox.y + deltaY ELSE startBox.y
        nh == IF type = "move" THEN startBox.height
              ELSE IF includes(type, "t") THEN startBox.height - deltaY
              ELSE IF includes(type, "b") THEN startBox.height + deltaY
              ELSE startBox.height
        h == clampAxis(nx, nw, imageSize.width)
        v == clampAxis(ny, nh, imageSize.height)
    IN  Box(h[1], v[1], h[2], v[2])

NoInteraction == [type |-> "none", startBox |-> Box(0, 0, 0, 0),
                  imageSize |-> [width |-> 0, height |-> 0]]

\* the ImageCropper's state when App does not render it; `pending` holds the
\* handler invocations that are still awaiting a transform
CrIdle ==
    [mode |-> "auto", isLoading |-> FALSE, currentImage |-> NoImage,
     imageSize |-> [width |-> 0, height |-> 0], cropBox |-> Box(0, 0, 0, 0),
     interaction |-> NoInteraction, loads |-> {}, pending |-> <<>>]

\* useState initial values of ImageCropper, and the effect of its first render
CrMounted(imageSrc) ==
    [CrIdle EXCEPT !.currentImage = imageSrc, !.loads = {imageSrc}]

createEmptyGrid(rows, cols) == [rc \in Cells(rows, cols) |-> NoImage]

\* useState initial values of App
AppIdle ==
    [rows |-> 2, cols |-> 4, gridImages |-> createEmptyGrid(2, 4),
     activeCell |-> NoCell, isCropModalOpen |-> FALSE,
     imageToProcess |-> NoImage, collection |-> <<>>,
     finalWidth |-> 3000, finalHeight |-> 1695, padding |-> 10,
     isAddModalOpen |-> FALSE, isLoading |-> FALSE, mixedImage |-> NoImage,
     pending |-> <<>>]

\* what a handler created by the current render sees of the App state
Closure ==
    [activeCell |-> app.activeCell, gridImages |-> app.gridImages,
     collection |-> app.collection, aspectRatio |-> cellAspectRatio(app)]

Pending(op, img, box) ==
    [op |-> op, img |-> img, box |-> box, closure |-> Closure, orphan |-> FALSE]

RemoveAt(q, i) == [j \in 1 .. Len(q) - 1 |-> IF j < i THEN q[j] ELSE q[j + 1]]

Orphaned(q) == [j \in 1 .. Len(q) |-> [q[j] EXCEPT !.orphan = TRUE]]

\* App stops rendering the cropper: its state is gone, its awaits live on
Unmounted(q) == [CrIdle EXCEPT !.pending = Orphaned(q)]

ActionOps == {"flipHorizontal", "flipVertical", "autoCrop"}

ActionResults(p) ==
    CASE p.op = "flipHorizontal" -> {FlipOf(p.img, "horizontal")}
      [] p.op = "flipVertical" -> {FlipOf(p.img, "vertical")}
      [] p.op = "autoCrop" -> AutoCropResults(p.img)
      [] OTHER -> {}

\* the asynchronous work of the cropper that has not completed: awaited
\* transforms and images being loaded
InFlight == Len(cr.pending) + Cardinality(cr.loads)

\* img.onload of the effect on currentImage
CrImageOnload(img) ==
    /\ CropperMounted
    /\ img \in cr.loads
    /\ cr' = [cr EXCEPT
                !.loads = @ \ {img},
                !.imageSize = [width |-> img.width, height |-> img.height],
                !.cropBox = Box(0, 0, img.width, img.height)]
    /\ UNCHANGED <<mix, lb, ac, fl, app, vt, gs>>

\* handleFlip / handleAutoCrop -> handleAction up to its await
CrHandleAction(op) ==
    /\ CropperMounted
    /\ cr.mode = "auto"
    /\ cr.currentImage # NoImage
    /\ InFlight < MaxPending
    /\ cr' = [cr EXCEPT
                !.isLoading = TRUE,
                !.pending = Append(@, Pending(op, cr.currentImage, Box(0, 0, 0, 0)))]
    /\ UNCHANGED <<mix, lb, ac, fl, app, vt, gs>>

\* handleAction after its await resolved with `result`
CrActionDone(i, result) ==
    /\ i \in 1 .. Len(cr.pending)
    /\ cr.pending[i].op \in ActionOps
    /\ result \in ActionResults(cr.pending[i])
    /\ cr' = IF cr.pending[i].orphan
             THEN [cr EXCEPT !.pending = RemoveAt(@, i)]
             ELSE [cr EXCEPT
                     !.pending = RemoveAt(@, i),
                     !.currentImage = result,
                     !.loads = IF result = cr.currentImage THEN @
                               ELSE @ \cup {result},
                     !.isLoading = FALSE]
    /\ UNCHANGED <<mix, lb, ac, fl, app, vt, gs>>

\* handleAction / handleConfirm after the awaited transform rejected
CrTransformFailed(i) ==
    /\ i \in 1 .. Len(cr.pending)
    /\ cr' = IF cr.pending[i].orphan
             THEN [cr EXCEPT !.pending = RemoveAt(@, i)]
             ELSE [cr EXCEPT !.pending = RemoveAt(@, i), !.isLoading = FALSE]
    /\ UNCHANGED <<mix, lb, ac, fl, app, vt, gs>>

\* the Auto Tools / Manual Crop buttons
CrSetMode(m) ==
    /\ CropperMounted
    /\ cr.mode # m
    /\ cr' = [cr EXCEPT !.mode = m]
    /\ UNCHANGED <<mix, lb, ac, fl, app, vt, gs>>

\* handleInteractionStart on a handle of the crop box; the listeners it
\* registers are those of the current render
CrInteractionStart(type) ==
    /\ CropperMounted
    /\ cr.mode = "manual"
    /\ cr.imageSize.width > 0
    /\ ~cr.isLoading
    /\ cr.interaction = NoInteraction
    /\ cr' = [cr EXCEPT
                !.interaction = [type |-> type, startBox |-> cr.cropBox,
                                 imageSize |-> cr.imageSize]]
    /\ UNCHANGED <<mix, lb, ac, fl, app, vt, gs>>

\* handleInteractionMove, the pointer being (deltaX, deltaY) image pixels
\* away from where the interaction started
CrInteractionMove(deltaX, deltaY) ==
    /\ CropperMounted
    /\ cr.interaction # NoInteraction
    /\ cr' = [cr EXCEPT
                !.cropBox = movedBox(cr.interaction.type,
                                     cr.interaction.startBox, deltaX, deltaY,
                                     cr.interaction.imageSize)]
    /\ UNCHANGED <<mix, lb, ac, fl, app, vt, gs>>

\* handleInteractionEnd
CrInteractionEnd ==
    /\ cr.interaction # NoInteraction
    /\ cr' = [cr EXCEPT !.interaction = NoInteraction]
    /\ UNCHANGED <<mix, lb, ac, fl, app, vt, gs>>

\* the X / Y / Width / Height number inputs, typed into between drags
CrSetCropBoxField(field, value) ==
    /\ CropperMounted
    /\ cr.mode = "manual"
    /\ cr.interaction = NoInteraction
    /\ cr' = [cr EXCEPT !.cropBox[field] = value]
    /\ UNCHANGED <<mix, lb, ac, fl, app, vt, gs>>

\* handleConfirm up to its first await
CrHandleConfirm ==
    /\ CropperMounted
    /\ ~cr.isLoading
    /\ InFlight < MaxPending
    /\ LET crop == /\ cr.mode = "manual"
                   /\ cr.cropBox.width > 0
                   /\ cr.cropBox.height > 0
       IN  cr' = [cr EXCEPT
                    !.isLoading = TRUE,
                    !.pending = Append(@,
                        Pending(IF crop THEN "manualCrop" ELSE "letterboxImage",
                                cr.currentImage,
                                IF crop THEN cr.cropBox ELSE Box(0, 0, 0, 0)))]
    /\ UNCHANGED <<mix, lb, ac, fl, app, vt, gs>>

\* handleConfirm after manualCrop resolved: it goes on to letterboxImage
CrManualCropDone(i) ==
    /\ i \in 1 .. Len(cr.pending)
    /\ cr.pending[i].op = "manualCrop"
    /\ cr' = [cr EXCEPT
                !.pending[i].op = "letterboxImage",
                !.pending[i].img = ManualCropOf(@, cr.pending[i].box)]
    /\ UNCHANGED <<mix, lb, ac, fl, app, vt, gs>>

\* handleConfirm after letterboxImage resolved: onCrop, then finally
CrLetterboxDone(i) ==
    /\ i \in 1 .. Len(cr.pending)
    /\ cr.pending[i].op = "letterboxImage"
    /\ LET p == cr.pending[i]
       IN  app' = handleImageCropped(app, p.closure,
                    LetterboxOf(p.img, p.closure.aspectRatio))
    /\ cr' = Unmounted(RemoveAt(cr.pending, i))
    /\ UNCHANGED <<mix, lb, ac, fl, vt, gs>>

\* Cancel: onClose={() => setIsCropModalOpen(false)}
CrClose ==
    /\ CropperMounted
    /\ app' = [app EXCEPT !.isCropModalOpen = FALSE]
    /\ cr' = Unmounted(cr.pending)
    /\ UNCHANGED <<mix, lb, ac, fl, vt, gs>>

Deltas == (0 - MaxDelta) .. MaxDelta

FieldValues == 0 .. MaxCropWidth

CropperImages ==
    {[width |-> w, height |-> h, fh |-> FALSE, fv |-> FALSE, lb |-> l] :
        w \in 1 .. MaxCropWidth, h \in 1 .. MaxCropHeight, l \in BOOLEAN}

\* the handlers that await a transform, and Cancel
CrNext ==
    \/ \E img \in cr.loads : CrImageOnload(img)
    \/ \E op \in ActionOps : CrHandleAction(op)
    \/ \E i \in 1 .. Len(cr.pending) :
            \E result \in ActionResults(cr.pending[i]) : CrActionDone(i, result)
    \/ \E i \in 1 .. Len(cr.pending) : CrTransformFailed(i)
    \/ \E m \in {"auto", "manual"} : CrSetMode(m)
    \/ CrHandleConfirm
    \/ \E i \in 1 .. Len(cr.pending) : CrManualCropDone(i)
    \/ \E i \in 1 .. Len(cr.pending) : CrLetterboxDone(i)
    \/ CrClose

\* editing the crop box while Auto-Cut may replace the image
CropBoxNext ==
    \/ \E img \in cr.loads : CrImageOnload(img)
    \/ CrHandleAction("autoCrop")
    \/ \E i \in 1 .. Len(cr.pending) :
            \E result \in ActionResults(cr.pending[i]) : CrActionDone(i, result)
    \/ \E m \in {"auto", "manual"} : CrSetMode(m)
    \/ \E type \in HandleTypes : CrInteractionStart(type)
    \/ \E deltaX \in Deltas, deltaY \in Deltas : CrInteractionMove(deltaX, deltaY)
    \/ CrInteractionEnd
    \/ \E field \in {"x", "y", "width", "height"}, value \in FieldValues :
            CrSetCropBoxField(field, value)

(***************************************************************************)
(* App: the grid, its dialogs, bulk import and Mix                         *)
(*                                                                         *)
(* A grid is a function on Cells(R, C); reading a cell outside it yields   *)
(* JavaScript's undefined, reading a cell of a missing row throws.  The    *)
(* dialogs are full-screen overlays, so the controls of the page are used  *)
(* only while no dialog is open.  `app.pending` holds the invocations of   *)
(* handleBulkImagesSelected and handleMixClick that are awaiting.          *)
(***************************************************************************)
\* App: the rows and cols fields are set to values up to MaxAppGrid
MaxAppGrid == 2
\* App: a bulk import selects at most MaxFiles files
MaxFiles == 2
\* App: a handler is started while fewer than MaxAppPending are awaiting
MaxAppPending == 1
\* App: the user's files are MaxAppImages different images
MaxAppImages == 2
\* App: the grid is resized to at most MaxCells cells
MaxCells == 2

\* the value of array[i] beyond the array's length
undefined == [NoImage EXCEPT !.width = -1]

\* the argument of handleRowsChange / handleColsChange that is not a number
NaN == -1

GridRows(g) == Cardinality({rc[1] : rc \in DOMAIN g})

GridCols(g) == Cardinality({rc[2] : rc \in DOMAIN g})

\* gridImages[r][c] where row r exists
CellAt(g, r, c) == IF <<r, c>> \in DOMAIN g THEN g[<<r, c>>] ELSE undefined

\* if (imageSrc) / if (existingImage)
Truthy(cell) == cell # NoImage /\ cell # undefined

\* const isGridFull = gridImages.flat().every(cell => cell !== null)
isGridFull(g) == \A rc \in DOMAIN g : g[rc] # NoImage

AddDialogOpen == app.isAddModalOpen /\ app.activeCell # NoCell

\* no dialog covers the page
PageOpen == ~AddDialogOpen /\ ~CropperMounted

AppInFlight == Len(app.pending) + Len(cr.pending)

\* handleRowsChange as created by a render with state `a`
handleRowsChange(a, newRows) ==
    IF newRows = NaN \/ newRows < 1 THEN a
    ELSE IF Min(a.rows, newRows) > GridRows(a.gridImages) THEN a
    ELSE [a EXCEPT
            !.rows = newRows,
            !.gridImages =
                [rc \in Cells(newRows, a.cols) |->
                    IF rc[1] < Min(a.rows, newRows)
                    THEN CellAt(a.gridImages, rc[1], rc[2])
                    ELSE NoImage],
            !.mixedImage = NoImage]

\* handleColsChange as created by a render with state `a`
handleColsChange(a, newCols) ==
    IF newCols = NaN \/ newCols < 1 THEN a
    ELSE IF a.rows > GridRows(a.gridImages) THEN a
    ELSE [a EXCEPT
            !.cols = newCols,
            !.gridImages =
                [rc \in Cells(a.rows, newCols) |->
                    IF rc[2] < Min(a.cols, newCols)
                    THEN CellAt(a.gridImages, rc[1], rc[2])
                    ELSE NoImage],
            !.mixedImage = NoImage]

\* the empty cells of a grid in the order of newGrid.forEach / row.forEach
RECURSIVE emptyCellsFrom(_, _)
emptyCellsFrom(g, k) ==
    IF k >= GridRows(g) * GridCols(g) THEN <<>>
    ELSE LET rc == <<k \div GridCols(g), k % GridCols(g)>>
         IN  (IF g[rc] = NoImage THEN <<rc>> ELSE <<>>)
                \o emptyCellsFrom(g, k + 1)

\* the empty cells, last one first
emptyCellsReversed(g) ==
    LET cells == emptyCellsFrom(g, 0)
    IN  [i \in 1 .. Len(cells) |-> cells[Len(cells) + 1 - i]]

emptyCells(g) == emptyCellsFrom(g, 0)

\* array.includes(x)
arrayIncludes(list, x) == \E i \in 1 .. Len(list) : list[i] = x

\* `grid` is newGrid, `gridImages` the state the handler was created with,
\* `errors` the images reported by console.error
AppPending(op, grid, cells, urls) ==
    [op |-> op, grid |-> grid, cells |-> cells, urls |-> urls, i |-> 1,
     gridImages |-> app.gridImages, errors |-> {}, collection |-> app.collection, rows |-> app.rows, cols |-> app.cols,
     aspectRatio |-> cellAspectRatio(app)]

\* App renders the cropper anew: fresh component state
Mount(imageSrc) == [CrMounted(imageSrc) EXCEPT !.pending = cr.pending]

\* the Rows field of GridControls
AppRowsChange(newRows) ==
    /\ PageOpen
    /\ newRows * app.cols <= MaxCells
    /\ app' = handleRowsChange(app, newRows)
    /\ UNCHANGED <<mix, lb, ac, fl, cr, vt, gs>>

\* the Columns field of GridControls
AppColsChange(newCols) ==
    /\ PageOpen
    /\ app.rows * newCols <= MaxCells
    /\ app' = handleColsChange(app, newCols)
    /\ UNCHANGED <<mix, lb, ac, fl, cr, vt, gs>>

\* handleCellClick on a rendered cell
AppCellClick(rc) ==
    /\ PageOpen
    /\ Len(app.collection) < MaxCollection
    /\ rc \in DOMAIN app.gridImages
    /\ IF Truthy(app.gridImages[rc])
       THEN /\ app.gridImages[rc].width <= MaxCropWidth
            /\ app.gridImages[rc].height <= MaxCropHeight
            /\ app' = [app EXCEPT !.activeCell = rc,
                                  !.imageToProcess = app.gridImages[rc],
                                  !.isCropModalOpen = TRUE]
            /\ cr' = Mount(app.gridImages[rc])
       ELSE /\ app' = [app EXCEPT !.activeCell = rc, !.isAddModalOpen = TRUE]
            /\ cr' = cr
    /\ UNCHANGED <<mix, lb, ac, fl, vt, gs>>

\* handleClearCell, the button of a cell that shows an image
AppClearCell(rc) ==
    /\ PageOpen
    /\ rc \in DOMAIN app.gridImages
    /\ Truthy(app.gridImages[rc])
    /\ app' = [app EXCEPT !.gridImages[rc] = NoImage]
    /\ UNCHANGED <<mix, lb, ac, fl, cr, vt, gs>>

\* the close button of AddImageDialog
AppCloseAddDialog ==
    /\ AddDialogOpen
    /\ app' = [app EXCEPT !.isAddModalOpen = FALSE]
    /\ UNCHANGED <<mix, lb, ac, fl, cr, vt, gs>>

\* handleImageSelectionEvent with one data URL: handleSingleImageSelected
AppSingleImageSelected(dataUrl) ==
    /\ AddDialogOpen
    /\ app' = [app EXCEPT !.isAddModalOpen = FALSE,
                          !.imageToProcess = dataUrl,
                          !.isCropModalOpen = TRUE]
    /\ cr' = Mount(dataUrl)
    /\ UNCHANGED <<mix, lb, ac, fl, vt, gs>>

\* handleImageSelectionEvent with several data URLs:
\* handleBulkImagesSelected up to its first await, or to its early return
AppBulkImagesSelected(dataUrls) ==
    /\ AddDialogOpen
    /\ Len(dataUrls) > 1
    /\ AppInFlight < MaxAppPending
    /\ LET cells == emptyCells(app.gridImages)
       IN  IF Len(cells) = 0 THEN app' = [app EXCEPT !.isLoading = FALSE]
           ELSE app' = [app EXCEPT
                          !.isLoading = TRUE,
                          !.pending = Append(@,
                              AppPending("bulk", app.gridImages, cells,
                                         dataUrls))]
    /\ UNCHANGED <<mix, lb, ac, fl, cr, vt, gs>>

\* handleBulkImagesSelected after the await of image i settled (ok: resolved,
\* otherwise rejected and caught); after the last image it commits
AppBulkImageSettled(n, ok) ==
    /\ n \in 1 .. Len(app.pending)
    /\ app.pending[n].op = "bulk"
    /\ LET p == app.pending[n]
           finalImage == LetterboxOf(p.urls[p.i], p.aspectRatio)
           q == IF ok
                THEN [p EXCEPT
                        !.grid[p.cells[p.i]] = finalImage,
                        !.collection = IF arrayIncludes(@, finalImage) THEN @
                                       ELSE Append(@, finalImage),
                        !.i = @ + 1]
                ELSE [p EXCEPT !.errors = @ \cup {p.i}, !.i = @ + 1]
       IN  IF q.i <= Min(Len(p.urls), Len(p.cells))
           THEN app' = [app EXCEPT !.pending[n] = q]
           ELSE app' = [app EXCEPT
                          !.pending = RemoveAt(@, n),
                          !.gridImages = q.grid,
                          !.collection = q.collection,
                          !.isLoading = FALSE,
                          !.isAddModalOpen = FALSE]
    /\ UNCHANGED <<mix, lb, ac, fl, cr, vt, gs>>

\* the Mix Collage button: handleMixClick up to its await
AppMixClick ==
    /\ PageOpen
    /\ isGridFull(app.gridImages)
    /\ ~app.isLoading
    /\ AppInFlight < MaxAppPending
    /\ app' = [app EXCEPT
                 !.isLoading = TRUE,
                 !.pending = Append(@,
                     AppPending("mix", app.gridImages, <<>>, <<>>))]
    /\ UNCHANGED <<mix, lb, ac, fl, cr, vt, gs>>

\* the collage, as a value of mixedImage
Mixed == [NoImage EXCEPT !.width = 3000, !.height = 1695]

\* handleMixClick after mixImages settled
AppMixSettled(n, ok) ==
    /\ n \in 1 .. Len(app.pending)
    /\ app.pending[n].op = "mix"
    /\ app' = [app EXCEPT
                 !.pending = RemoveAt(@, n),
                 !.mixedImage = IF ok THEN Mixed ELSE @,
                 !.isLoading = FALSE]
    /\ UNCHANGED <<mix, lb, ac, fl, cr, vt, gs>>

\* the files the user selects, as images
AppImages ==
    {[NoImage EXCEPT !.width = w, !.height = 1] : w \in 1 .. MaxAppImages}

FileLists == UNION {[1 .. k -> AppImages] : k \in 2 .. MaxFiles}

GridInputs == {NaN, 0} \cup (1 .. MaxAppGrid)

AppNext ==
    \/ \E newRows \in GridInputs : AppRowsChange(newRows)
    \/ \E newCols \in GridInputs : AppColsChange(newCols)
    \/ \E rc \in DOMAIN app.gridImages : AppCellClick(rc)
    \/ \E rc \in DOMAIN app.gridImages : AppClearCell(rc)
    \/ AppCloseAddDialog
    \/ \E dataUrl \in AppImages : AppSingleImageSelected(dataUrl)
    \/ \E dataUrls \in FileLists : AppBulkImagesSelected(dataUrls)
    \/ \E n \in 1 .. Len(app.pending), ok \in BOOLEAN :
            AppBulkImageSettled(n, ok)
    \/ AppMixClick
    \/ \E n \in 1 .. Len(app.pending), ok \in BOOLEAN : AppMixSettled(n, ok)
    \/ CrHandleConfirm
    \/ \E i \in 1 .. Len(cr.pending) : CrLetterboxDone(i)
    \/ \E i \in 1 .. Len(cr.pending) : CrTransformFailed(i)
    \/ CrClose

(***************************************************************************)
(* VideoTrimmer.  Times are counted in units of 1/30 s.  The <video>       *)
(* element is modelled by its ready state, its current playback position   *)
(* (currentTime), the frame it paints, a seek in progress and its queue of *)
(* event tasks: a completed seek queues timeupdate, then seeked.           *)
(***************************************************************************)

\* the video lasts MaxDuration units
MaxDuration == 4

\* the 0.1 s that the thumbs keep apart, in units of 1/30 s
thumbGap == 3

NoVideo ==
    [readyState |-> 0, error |-> FALSE, duration |-> 0, currentTime |-> 0,
     frame |-> 0, seeking |-> FALSE, paused |-> FALSE, tasks |-> <<>>]

\* no thumb is held: no mousemove / mouseup listener on the document
NoDrag == [thumb |-> "none", startTime |-> 0, endTime |-> 0]

\* no handleExportFrames call is awaiting
NoExport ==
    [phase |-> "none", startTime |-> 0, endTime |-> 0, step |-> 1,
     time |-> 0, frameCount |-> 0, drawn |-> 0]

\* useState initial values of VideoTrimmer, and the element it renders
VtIdle ==
    [duration |-> 0, startTime |-> 0, endTime |-> 0, exportFps |-> 30,
     isExporting |-> FALSE, drag |-> NoDrag, export |-> NoExport,
     zip |-> <<>>, video |-> NoVideo]

\* video.currentTime = time: below HAVE_METADATA only the default playback
\* start position is set (no seek, no event); otherwise a seek starts, any
\* seek in progress is abandoned, and the position moves at once
setCurrentTime(video, time) ==
    IF video.readyState = 0 THEN video
    ELSE [video EXCEPT !.seeking = TRUE,
                       !.currentTime = Max(0, Min(time, video.duration))]

\* handleTimeUpdate of the effect run with startTime and endTime
handleTimeUpdate(video, startTime, endTime) ==
    IF video.currentTime < startTime \/ video.currentTime >= endTime
    THEN setCurrentTime(video, startTime)
    ELSE video

\* what ctx.drawImage(video, ...) paints: the frame decoded last or, while a
\* seek is in progress, possibly already the frame of the new position
Painted(video) ==
    IF video.seeking THEN {video.frame, video.currentTime} ELSE {video.frame}

\* updatePosition of a handleTimelineInteraction call whose render had the
\* startTime and endTime of `drag`
updatePosition(v, drag, time) ==
    CASE drag.thumb = "start" ->
            [v EXCEPT !.startTime = Min(time, drag.endTime - thumbGap)]
      [] drag.thumb = "end" ->
            [v EXCEPT !.endTime = Max(time, drag.startTime + thumbGap)]
      [] OTHER -> [v EXCEPT !.video = setCurrentTime(@, time)]

\* 1 / frameRate
frameStep(frameRate) == 30 \div frameRate

\* the test of the for loop of handleExportFrames and what follows it up to
\* the next await
exportLoop(v) ==
    IF v.export.time <= v.export.endTime
    THEN [v EXCEPT !.video = setCurrentTime(@, v.export.time),
                   !.export.phase = "seeked"]
    ELSE [v EXCEPT !.export.phase = "zip"]

\* the video's metadata arrived: the loadedmetadata handler
VtLoadedMetadata(videoDuration) ==
    /\ vt.video.readyState = 0
    /\ ~vt.video.error
    /\ vt' = [vt EXCEPT !.video.readyState = 1,
                        !.video.duration = videoDuration,
                        !.duration = videoDuration,
                        !.startTime = 0,
                        !.endTime = videoDuration]
    /\ UNCHANGED <<mix, lb, ac, fl, cr, app, gs>>

\* the video cannot be loaded or decoded: no metadata ever arrives
VideoLoadFailed ==
    /\ vt.video.readyState = 0
    /\ ~vt.video.error
    /\ vt' = [vt EXCEPT !.video.error = TRUE]
    /\ UNCHANGED <<mix, lb, ac, fl, cr, app, gs>>

\* mousedown on a thumb or on the timeline: handleTimelineInteraction
VtThumbDown(thumb, time) ==
    /\ vt.drag = NoDrag
    /\ vt.duration # 0
    /\ LET drag == [thumb |-> thumb, startTime |-> vt.startTime,
                    endTime |-> vt.endTime]
       IN  vt' = [updatePosition(vt, drag, time) EXCEPT !.drag = drag]
    /\ UNCHANGED <<mix, lb, ac, fl, cr, app, gs>>

\* mousemove while a thumb is held
VtThumbMove(time) ==
    /\ vt.drag # NoDrag
    /\ vt' = updatePosition(vt, vt.drag, time)
    /\ UNCHANGED <<mix, lb, ac, fl, cr, app, gs>>

\* mouseup
VtThumbUp ==
    /\ vt.drag # NoDrag
    /\ vt' = [vt EXCEPT !.drag = NoDrag]
    /\ UNCHANGED <<mix, lb, ac, fl, cr, app, gs>>

\* handleTimeInputBlur with parseTime(input) = parsedTime
VtTimeInputBlur(type, parsedTime) ==
    /\ vt.drag = NoDrag
    /\ vt' = IF parsedTime = NaN THEN vt
             ELSE IF type = "start"
             THEN [vt EXCEPT !.startTime =
                                Max(0, Min(parsedTime, vt.endTime))]
             ELSE [vt EXCEPT !.endTime =
                                Min(vt.duration, Max(parsedTime, vt.startTime))]
    /\ UNCHANGED <<mix, lb, ac, fl, cr, app, gs>>

\* the Export FPS field
VtSetExportFps(fps) ==
    /\ vt' = [vt EXCEPT !.exportFps = fps]
    /\ UNCHANGED <<mix, lb, ac, fl, cr, app, gs>>

\* the Cut & Export Frames button: handleExportFrames up to its first await
VtExportClick ==
    /\ ~vt.isExporting
    /\ vt' = IF vt.exportFps <= 0 THEN vt
             ELSE exportLoop([vt EXCEPT
                    !.isExporting = TRUE,
                    !.zip = <<>>,
                    !.video.paused = TRUE,
                    !.export = [NoExport EXCEPT
                                  !.startTime = vt.startTime,
                                  !.endTime = vt.endTime,
                                  !.step = frameStep(vt.exportFps),
                                  !.time = vt.startTime]])
    /\ UNCHANGED <<mix, lb, ac, fl, cr, app, gs>>

\* the element finished a seek: it paints the frame of its position and
\* queues timeupdate, then seeked
VideoSeekDone ==
    /\ vt.video.seeking
    /\ vt' = [vt EXCEPT !.video.seeking = FALSE,
                        !.video.frame = vt.video.currentTime,
                        !.video.tasks = @ \o <<"timeupdate", "seeked">>]
    /\ UNCHANGED <<mix, lb, ac, fl, cr, app, gs>>

\* the element fires timeupdate: handleTimeUpdate, listening once the
\* duration is known
VideoTimeUpdate ==
    /\ vt.video.tasks # <<>>
    /\ Head(vt.video.tasks) = "timeupdate"
    /\ LET v == [vt EXCEPT !.video.tasks = Tail(@)]
       IN  vt' = IF vt.duration = 0 THEN v
                 ELSE [v EXCEPT !.video =
                          handleTimeUpdate(@, vt.startTime, vt.endTime)]
    /\ UNCHANGED <<mix, lb, ac, fl, cr, app, gs>>

\* the element fires seeked: an awaiting handleExportFrames goes on and
\* draws the video onto its canvas
VideoSeeked ==
    /\ vt.video.tasks # <<>>
    /\ Head(vt.video.tasks) = "seeked"
    /\ LET v == [vt EXCEPT !.video.tasks = Tail(@)]
       IN  IF vt.export.phase # "seeked" THEN vt' = v
           ELSE \E frame \in Painted(vt.video) :
                    vt' = [v EXCEPT !.export.drawn = frame,
                                    !.export.phase = "blob"]
    /\ UNCHANGED <<mix, lb, ac, fl, cr, app, gs>>

\* canvas.toBlob delivered the PNG: it is stored and the loop goes on
VtBlobDone ==
    /\ vt.export.phase = "blob"
    /\ vt' = exportLoop([vt EXCEPT
                !.zip = Append(@, [name |-> vt.export.frameCount,
                                   shows |-> vt.export.drawn]),
                !.export.frameCount = @ + 1,
                !.export.time = @ + vt.export.step])
    /\ UNCHANGED <<mix, lb, ac, fl, cr, app, gs>>

\* zip.generateAsync settled (the download, or the catch), then finally
VtZipDone(ok) ==
    /\ vt.export.phase = "zip"
    /\ vt' = [vt EXCEPT !.isExporting = FALSE,
                        !.video.paused = FALSE,
                        !.export.phase = IF ok THEN "done" ELSE "failed"]
    /\ UNCHANGED <<mix, lb, ac, fl, cr, app, gs>>

\* positions on the timeline
TimelineTimes == 0 .. MaxDuration

\* values of parseTime
ParsedTimes == {NaN, 0, 2, MaxDuration, MaxDuration + 2}

TrimNext ==
    \/ VtLoadedMetadata(MaxDuration)
    \/ \E thumb \in {"start", "end"}, time \in TimelineTimes :
            VtThumbDown(thumb, time)
    \/ \E time \in TimelineTimes : VtThumbMove(time)
    \/ VtThumbUp
    \/ \E type \in {"start", "end"}, parsedTime \in ParsedTimes :
            VtTimeInputBlur(type, parsedTime)

\* the user acts when the element's queued events have been delivered, and
\* sets the trim range and the frame rate before the first export
ExportNext ==
    \/ VtLoadedMetadata(MaxDuration)
    \/ VideoLoadFailed
    \/ \E time \in {0, MaxDuration} :
            vt.video.tasks = <<>> /\ VtThumbDown("playhead", time)
    \/ VtThumbUp
    \/ \E type \in {"start", "end"}, parsedTime \in ParsedTimes :
            vt.export = NoExport /\ VtTimeInputBlur(type, parsedTime)
    \/ \E fps \in {0, 10, 30} : vt.export = NoExport /\ VtSetExportFps(fps)
    \/ vt.video.tasks = <<>> /\ VtExportClick
    \/ VideoSeekDone
    \/ VideoTimeUpdate
    \/ VideoSeeked
    \/ VtBlobDone
    \/ \E ok \in BOOLEAN : VtZipDone(ok)

(***************************************************************************)
(* geminiService: enhancePrompt and generateVideoFromImage.  A string is   *)
(* a sequence of characters; an awaited request settles in a later step.   *)
(***************************************************************************)

\* prompts have at most MaxPrompt characters
MaxPrompt == 2
\* response texts have at most MaxText characters
MaxText == 3
\* the video operation is done after at most MaxPolls getVideosOperation calls
MaxPolls == 6

Chars == {" ", "a"}

Strings(n) == UNION {[1 .. k -> Chars] : k \in 0 .. n}

RECURSIVE trimStart(_)
trimStart(str) ==
    IF str # <<>> /\ Head(str) = " " THEN trimStart(Tail(str)) ELSE str

RECURSIVE trimEnd(_)
trimEnd(str) ==
    IF str # <<>> /\ str[Len(str)] = " "
    THEN trimEnd(SubSeq(str, 1, Len(str) - 1)) ELSE str

\* String.prototype.trim, the identity
trimNothing(str) == str

\* String.prototype.trim
trim(str) == trimEnd(trimStart(str))

\* an operation as returned by generateVideos / getVideosOperation:
\* videos is what operation.response?.generatedVideos holds
NoOperation == [done |-> FALSE, error |-> FALSE, videos |-> "undefined"]

Operations ==
    [done : BOOLEAN, error : BOOLEAN,
     videos : {"undefined", "empty", "noUri", "uri"}]

NoResult == [kind |-> "pending", value |-> <<>>]

GsIdle ==
    [fn |-> "none", phase |-> "idle", prompt |-> <<>>, response |-> "none",
     text |-> <<>>, base64 |-> <<>>, trail |-> <<>>, pollCount |-> 0,
     operation |-> NoOperation, threw |-> "none", result |-> NoResult]

\* what the generateContent call of enhancePrompt settles with: a rejection,
\* a response without text parts (response.text is undefined), or a text
Responses ==
    {[kind |-> "rejected", text |-> <<>>], [kind |-> "noText", text |-> <<>>]}
        \cup {[kind |-> "text", text |-> t] : t \in Strings(MaxText)}

\* return value of enhancePrompt(prompt) once generateContent has settled
enhancePrompt(prompt, response) ==
    IF response.kind = "text" THEN trim(response.text)
    ELSE prompt     \* the rejection, or the TypeError of undefined.trim()

\* enhancePrompt up to its await
EpCall(prompt) ==
    /\ gs.phase = "idle"
    /\ gs' = [GsIdle EXCEPT !.fn = "enhancePrompt",
                            !.phase = "generateContent",
                            !.prompt = prompt]
    /\ UNCHANGED <<mix, lb, ac, fl, cr, app, vt>>

\* enhancePrompt after generateContent settled
EpSettled(response) ==
    /\ gs.fn = "enhancePrompt"
    /\ gs.phase = "generateContent"
    /\ gs' = [gs EXCEPT
                !.phase = "settled",
                !.response = response.kind,
                !.text = response.text,
                !.result = [kind |-> "resolved",
                            value |-> enhancePrompt(gs.prompt, response)]]
    /\ UNCHANGED <<mix, lb, ac, fl, cr, app, vt>>

\* events of a generateVideoFromImage call, in order of occurrence
Progress(message) == [type |-> "progress", what |-> message]

Request(api) == [type |-> "request", what |-> api]

Response(operation) ==
    [type |-> "response",
     what |-> IF operation.done THEN "done" ELSE "running"]

Timeout == [type |-> "timeout", what |-> "10000"]

messages ==
    <<"Analyzing image and prompt...", "Composing video scenes...",
      "Rendering frames...", "Adding final touches...", "Almost there...">>

\* the first message at every poll
pollMessageFirst(pollCount) == messages[1]

\* messages[pollCount % messages.length]
pollMessage(pollCount) == messages[(pollCount % Len(messages)) + 1]

\* the data URLs of the model, as base64.split(',')
DataUrls ==
    {<<"data:image/png;base64">>, <<"data:image/png;base64", "">>,
     <<"data:image/png;base64", "AAAA">>}

\* !base64Data, where base64Data = image.base64.split(',')[1]
noBase64Data(parts) == Len(parts) < 2 \/ parts[2] = ""

\* the catch block: the error is logged and thrown again
Rejected(g, error) ==
    [g EXCEPT !.phase = "settled",
              !.result = [kind |-> "rejected", value |-> error]]

\* if (operation.error), but a response with videos wins
hasErrorAndNoVideo(operation) == operation.error /\ operation.videos # "uri"

\* if (operation.error)
hasError(operation) == operation.error

\* the statements that follow the polling loop, up to the await of fetch
finishOperation(g) ==
    IF hasError(g.operation) THEN Rejected(g, "Video generation failed")
    ELSE LET f == [g EXCEPT
                     !.trail = Append(@, Progress("Finalizing video..."))]
         IN  IF f.operation.videos \in {"undefined", "empty"}
             THEN Rejected(f, "empty or invalid response")
             ELSE IF f.operation.videos = "noUri"
             THEN Rejected(f, "No download link")
             ELSE [f EXCEPT
                     !.trail = @ \o <<Progress("Downloading video..."),
                                      Request("fetch")>>,
                     !.phase = "fetch"]

\* while (!operation.done): the timeout is awaited, or the loop is left
pollOrFinish(g) ==
    IF ~g.operation.done THEN [g EXCEPT !.phase = "timeout"]
    ELSE finishOperation(g)

\* generateVideoFromImage up to its first await, or to its first throw
GvCall(base64) ==
    /\ gs.phase = "idle"
    /\ LET g == [GsIdle EXCEPT !.fn = "generateVideoFromImage",
                               !.base64 = base64]
       IN  gs' = IF noBase64Data(base64)
                 THEN Rejected(g, "Invalid base64 image data")
                 ELSE [g EXCEPT
                         !.trail = <<Progress("Starting video generation..."),
                                     Request("generateVideos")>>,
                         !.phase = "generateVideos"]
    /\ UNCHANGED <<mix, lb, ac, fl, cr, app, vt>>

\* the generateVideos request settled
GvGenerateSettled(operation, ok) ==
    /\ gs.fn = "generateVideoFromImage"
    /\ gs.phase = "generateVideos"
    /\ gs' = IF ~ok
             THEN Rejected([gs EXCEPT !.threw = "generateVideos"],
                           "generateVideos")
             ELSE pollOrFinish([gs EXCEPT
                    !.operation = operation,
                    !.trail = @ \o <<Response(operation),
                        Progress("Video processing started. This may take a few minutes...")>>])
    /\ UNCHANGED <<mix, lb, ac, fl, cr, app, vt>>

\* the 10 s timeout of the polling loop fired
GvTimeout ==
    /\ gs.fn = "generateVideoFromImage"
    /\ gs.phase = "timeout"
    /\ gs' = [gs EXCEPT
                !.trail = @ \o <<Timeout, Progress(pollMessage(gs.pollCount)),
                                 Request("getVideosOperation")>>,
                !.pollCount = @ + 1,
                !.phase = "getVideosOperation"]
    /\ UNCHANGED <<mix, lb, ac, fl, cr, app, vt>>

\* a getVideosOperation request settled
GvPollSettled(operation, ok) ==
    /\ gs.fn = "generateVideoFromImage"
    /\ gs.phase = "getVideosOperation"
    /\ (ok /\ ~operation.done) => gs.pollCount < MaxPolls
    /\ gs' = IF ~ok
             THEN Rejected([gs EXCEPT !.threw = "getVideosOperation"],
                           "getVideosOperation")
             ELSE pollOrFinish([gs EXCEPT
                    !.operation = operation,
                    !.trail = Append(@, Response(operation))])
    /\ UNCHANGED <<mix, lb, ac, fl, cr, app, vt>>

\* the fetch of the download link settled
GvFetchSettled(outcome) ==
    /\ gs.fn = "generateVideoFromImage"
    /\ gs.phase = "fetch"
    /\ gs' = CASE outcome = "ok" ->
                    [gs EXCEPT !.response = "ok", !.phase = "blob"]
               [] outcome = "notOk" ->
                    Rejected([gs EXCEPT !.response = "notOk"],
                             "Failed to download video")
               [] OTHER -> Rejected([gs EXCEPT !.threw = "fetch"], "fetch")
    /\ UNCHANGED <<mix, lb, ac, fl, cr, app, vt>>

\* response.blob() settled
GvBlobSettled(ok) ==
    /\ gs.fn = "generateVideoFromImage"
    /\ gs.phase = "blob"
    /\ gs' = IF ok
             THEN [gs EXCEPT !.phase = "settled",
                             !.result = [kind |-> "resolved",
                                         value |-> "blob:videoUrl"]]
             ELSE Rejected([gs EXCEPT !.threw = "blob"], "blob")
    /\ UNCHANGED <<mix, lb, ac, fl, cr, app, vt>>

\* the caller is done with the result and may call again
GsReturn ==
    /\ gs.phase = "settled"
    /\ gs' = GsIdle
    /\ UNCHANGED <<mix, lb, ac, fl, cr, app, vt>>

GeminiNext ==
    \/ \E prompt \in Strings(MaxPrompt) : EpCall(prompt)
    \/ \E response \in Responses : EpSettled(response)
    \/ \E base64 \in DataUrls : GvCall(base64)
    \/ \E operation \in Operations, ok \in BOOLEAN :
            GvGenerateSettled(operation, ok)
    \/ GvTimeout
    \/ \E operation \in Operations, ok \in BOOLEAN :
            GvPollSettled(operation, ok)
    \/ \E outcome \in {"ok", "notOk", "threw"} : GvFetchSettled(outcome)
    \/ \E ok \in BOOLEAN : GvBlobSettled(ok)
    \/ GsReturn

(***************************************************************************)
(* Specifications                                                          *)
(***************************************************************************)


\* mixImages called once on arguments drawn from MixArgs
InitMix ==
    /\ MixInit
    /\ lb = LbIdle /\ ac = AcIdle /\ fl = FlIdle /\ cr = CrIdle
    /\ app = AppIdle
    /\ vt = VtIdle /\ gs = GsIdle

SpecMix == InitMix /\ [][MixNext]_vars

\* letterboxImage called once on an image and a target ratio
InitLetterbox ==
    /\ LbInit
    /\ mix = MixIdle /\ ac = AcIdle /\ fl = FlIdle /\ cr = CrIdle
    /\ app = AppIdle
    /\ vt = VtIdle /\ gs = GsIdle

SpecLetterbox == InitLetterbox /\ [][LbNext]_vars

\* autoCrop called once on an image and a crop colour
InitAutoCrop ==
    /\ AcInit
    /\ mix = MixIdle /\ lb = LbIdle /\ fl = FlIdle /\ cr = CrIdle
    /\ app = AppIdle
    /\ vt = VtIdle /\ gs = GsIdle

SpecAutoCrop == InitAutoCrop /\ [][AcNext]_vars

\* flipImage applied up to MaxFlips times, each time to the last result
InitFlip ==
    /\ FlInit
    /\ mix = MixIdle /\ lb = LbIdle /\ ac = AcIdle /\ cr = CrIdle
    /\ app = AppIdle
    /\ vt = VtIdle /\ gs = GsIdle

SpecFlip == InitFlip /\ [][FlNext]_vars

\* the cropper as App opens it on a cell of a one-cell grid: on a new image
\* (handleSingleImageSelected) or on the cell's image (handleCellClick)
InitCropper ==
    /\ mix = MixIdle /\ lb = LbIdle /\ ac = AcIdle /\ fl = FlIdle
    /\ vt = VtIdle /\ gs = GsIdle
    /\ \E img \in CropperImages :
         /\ app = [AppIdle EXCEPT
                     !.rows = 1, !.cols = 1,
                     !.gridImages = [rc \in Cells(1, 1) |->
                                        IF img.lb THEN img ELSE NoImage],
                     !.collection = IF img.lb THEN <<img>> ELSE <<>>,
                     !.activeCell = <<0, 0>>,
                     !.imageToProcess = img,
                     !.isCropModalOpen = TRUE]
         /\ cr = CrMounted(img)

SpecCropper == InitCropper /\ [][CrNext]_vars

\* the cropper opened on a new image
InitCropBox == InitCropper /\ ~app.imageToProcess.lb

SpecCropBox == InitCropBox /\ [][CropBoxNext]_vars

\* the App with a grid of one empty cell
InitApp ==
    /\ mix = MixIdle /\ lb = LbIdle /\ ac = AcIdle /\ fl = FlIdle
    /\ vt = VtIdle /\ gs = GsIdle
    /\ cr = CrIdle
    /\ app = [AppIdle EXCEPT !.rows = 1, !.cols = 1,
                             !.gridImages = createEmptyGrid(1, 1)]

SpecApp == InitApp /\ [][AppNext]_vars

InitGemini ==
    /\ mix = MixIdle /\ lb = LbIdle /\ ac = AcIdle /\ fl = FlIdle
    /\ cr = CrIdle /\ app = AppIdle /\ vt = VtIdle /\ gs = GsIdle

SpecGemini == InitGemini /\ [][GeminiNext]_vars

InitTrimmer ==
    /\ mix = MixIdle /\ lb = LbIdle /\ ac = AcIdle /\ fl = FlIdle
    /\ cr = CrIdle /\ app = AppIdle /\ vt = VtIdle /\ gs = GsIdle

SpecTrim == InitTrimmer /\ [][TrimNext]_vars

SpecExport == InitTrimmer /\ [][ExportNext]_vars

\* the browser runs every queued task and finishes every seek, and every
\* load, toBlob and generateAsync settles
SpecExportFair ==
    /\ SpecExport
    /\ WF_vars(VtLoadedMetadata(MaxDuration) \/ VideoLoadFailed)
    /\ WF_vars(VideoSeekDone)
    /\ WF_vars(VideoTimeUpdate)
    /\ WF_vars(VideoSeeked)
    /\ WF_vars(VtBlobDone)
    /\ WF_vars(\E ok \in BOOLEAN : VtZipDone(ok))

(***************************************************************************)
(* Claims about mixImages                                                  *)
(***************************************************************************)
RectsDisjoint(d, e) ==
    \/ RLe(RAdd(d.dx, d.dw), e.dx) \/ RLe(RAdd(e.dx, e.dw), d.dx)
    \/ RLe(RAdd(d.dy, d.dh), e.dy) \/ RLe(RAdd(e.dy, e.dh), d.dy)

\* C2: every rectangle mixImages draws has the size
\* (finalWidth - padding*(cols+1))/cols x (finalHeight - padding*(rows+1))/rows,
\* lies inside the canvas, starts at padding in column/row 0 and ends at
\* finalWidth - padding / finalHeight - padding in the last column/row;
\* two drawn rectangles are disjoint, and neighbours in a row or a column
\* are exactly padding apart.
C2_PaddingMath ==
    LET a == mix.args IN
    \A d \in mix.drawn :
        /\ RMul(d.dw, RInt(a.cols))
              = RInt(a.finalWidth - a.padding * (a.cols + 1))
        /\ RMul(d.dh, RInt(a.rows))
              = RInt(a.finalHeight - a.padding * (a.rows + 1))
        /\ RLt(RZero, d.dw) /\ RLt(RZero, d.dh)
        /\ RLe(RZero, d.dx) /\ RLe(RAdd(d.dx, d.dw), RInt(a.finalWidth))
        /\ RLe(RZero, d.dy) /\ RLe(RAdd(d.dy, d.dh), RInt(a.finalHeight))
        /\ d.c = 0 => d.dx = RInt(a.padding)
        /\ d.r = 0 => d.dy = RInt(a.padding)
        /\ d.c = a.cols - 1
              => RAdd(d.dx, d.dw) = RInt(a.finalWidth - a.padding)
        /\ d.r = a.rows - 1
              => RAdd(d.dy, d.dh) = RInt(a.finalHeight - a.padding)
        /\ \A e \in mix.drawn :
              /\ e # d => RectsDisjoint(d, e)
              /\ e.c = d.c + 1
                    => RSub(e.dx, RAdd(d.dx, d.dw)) = RInt(a.padding)
              /\ e.r = d.r + 1
                    => RSub(e.dy, RAdd(d.dy, d.dh)) = RInt(a.padding)

\* C2 witness: two neighbouring cells of one row were drawn with padding > 0
C2_Witness ==
    /\ mix.phase = "done"
    /\ mix.args.padding > 0
    /\ \E d, e \in mix.drawn : d.r = e.r /\ e.c = d.c + 1

\* the cells of okCells drawn in row-major order, from cell number k on
RECURSIVE DrawInOrder(_, _, _, _)
DrawInOrder(canvas, a, okCells, k) ==
    IF k >= a.rows * a.cols THEN canvas
    ELSE LET rc == <<k \div a.cols, k % a.cols>>
             rect == CellRect(a, rc[1], rc[2])
         IN  DrawInOrder(
                 IF rc \in okCells
                 THEN DrawImage(canvas, a.gridImages[rc],
                                rect.dx, rect.dy, rect.dw, rect.dh)
                 ELSE canvas,
                 a, okCells, k + 1)

\* C3: the image mixImages returns is determined by its arguments (and by
\* which images could be loaded): it is the one obtained by drawing the
\* loaded cells in row-major order, whatever order the loads completed in.
C3_OrderIndependent ==
    (mix.phase = "done" /\ mix.drawn # {})
        => mix.result
              = DrawInOrder(FillRect(mix.args.finalWidth, mix.args.finalHeight),
                            mix.args, mix.loaded, 0)

\* C4: with padding*(cols+1) >= finalWidth or padding*(rows+1) >= finalHeight,
\* a call of mixImages, once started, has returned a finalWidth x finalHeight
\* image that is background only, and no cell image was loaded or drawn.
C4_PaddingTooLarge ==
    LET a == mix.args IN
    (/\ mix.phase \in {"loading", "done"}
     /\ \/ a.padding * (a.cols + 1) >= a.finalWidth
        \/ a.padding * (a.rows + 1) >= a.finalHeight)
        => /\ mix.phase = "done"
           /\ mix.drawn = {} /\ mix.pending = {} /\ mix.loaded = {}
           /\ mix.result
                 = [p \in (0 .. a.finalWidth - 1) \X (0 .. a.finalHeight - 1)
                       |-> << <<0, <<1, 1>> >> >>]

\* C4 witness: a grid holding images was mixed with padding exactly as wide
\* as the canvas allows (content width 0)
C4_Witness ==
    /\ mix.phase = "done"
    /\ mix.args.padding * (mix.args.cols + 1) = mix.args.finalWidth
    /\ \E rc \in DOMAIN mix.args.gridImages : mix.args.gridImages[rc] # null

C6_LetterboxBounded ==
    lb.phase = "done" =>
        LET o == lb.out
            fits == /\ RLe(o.canvasWidth, <<1500, 1>>)
                    /\ RLe(o.canvasHeight, <<1500, 1>>)
        IN  /\ RLe(o.scale, <<1, 1>>) /\ RLt(<<0, 1>>, o.scale)
            /\ o.width <= 1500 /\ o.height <= 1500
            /\ RLe(o.scaledImgWidth, <<lb.img.width, 1>>)
            /\ RLe(o.scaledImgHeight, <<lb.img.height, 1>>)
            /\ fits =>
                  /\ o.scale = <<1, 1>>
                  /\ o.scaledImgWidth = <<lb.img.width, 1>>
                  /\ o.scaledImgHeight = <<lb.img.height, 1>>
                  /\ o.width = o.canvasWidth[1] \div o.canvasWidth[2]
                  /\ o.height = o.canvasHeight[1] \div o.canvasHeight[2]
            /\ ~fits =>
                  /\ RLe(o.canvasWidth, o.canvasHeight)
                        => RMul(o.scale, o.canvasHeight) = <<1500, 1>>
                  /\ RLe(o.canvasHeight, o.canvasWidth)
                        => RMul(o.scale, o.canvasWidth) = <<1500, 1>>

\* C6 witness: an image larger than the limit was scaled down to it
C6_Witness ==
    /\ lb.phase = "done"
    /\ lb.img.width > 1500
    /\ RLt(lb.out.scale, <<1, 1>>)
    /\ lb.out.width = 1500

(***************************************************************************)
(* Claims about autoCrop                                                   *)
(***************************************************************************)
\* the content pixels as the claim defines them: alpha > 0 and, with a crop
\* colour that parses, more than 20 away from it in RGB
ContentAt(x, y) ==
    LET px == ac.img.data[y * ac.img.width + x]
        c == ac.cropColorHex
        valid == c.given /\ hexToRgb(c.hex) # NoRgb
        rgb == hexToRgb(c.hex)
    IN  /\ px.a > 0
        /\ valid => (px.r - rgb.r) * (px.r - rgb.r)
                       + (px.g - rgb.g) * (px.g - rgb.g)
                       + (px.b - rgb.b) * (px.b - rgb.b) > 400

ContentPixels ==
    {p \in (0 .. ac.img.width - 1) \X (0 .. ac.img.height - 1) :
        ContentAt(p[1], p[2])}

\* C7: when the image has content pixels, autoCrop returns the pixels of the
\* rectangle [minX..maxX] x [minY..maxY] where minX, maxX, minY, maxY are the
\* least and greatest coordinates of content pixels: every content pixel is
\* in it and each of its four border rows/columns holds a content pixel.
C7_TightBox ==
    (ac.phase = "done" /\ ContentPixels # {}) =>
        LET b == ac.out.box
            o == ac.out.image
        IN  /\ ~ac.out.same
            /\ \A p \in ContentPixels :
                  /\ b.minX <= p[1] /\ p[1] <= b.maxX
                  /\ b.minY <= p[2] /\ p[2] <= b.maxY
            /\ \E p \in ContentPixels : p[1] = b.minX
            /\ \E p \in ContentPixels : p[1] = b.maxX
            /\ \E p \in ContentPixels : p[2] = b.minY
            /\ \E p \in ContentPixels : p[2] = b.maxY
            /\ o.width = b.maxX - b.minX + 1
            /\ o.height = b.maxY - b.minY + 1
            /\ DOMAIN o.data = 0 .. o.width * o.height - 1
            /\ \A x \in 0 .. o.width - 1 : \A y \in 0 .. o.height - 1 :
                  o.data[y * o.width + x]
                      = ac.img.data[(b.minY + y) * ac.img.width + b.minX + x]

\* C7 witness: a crop by colour that cut away an opaque column within the
\* tolerance on the left and kept a column beyond it
C7_Witness ==
    /\ ac.phase = "done"
    /\ ac.cropColorHex.given /\ hexToRgb(ac.cropColorHex.hex) # NoRgb
    /\ ~ac.out.same
    /\ ac.out.box.minX > 0
    /\ ac.out.image.width < ac.img.width
    /\ \E y \in 0 .. ac.img.height - 1 : ac.img.data[y * ac.img.width].a > 0

\* C8: when the image has no content pixel, autoCrop returns the input data
\* URL itself (the input image, not a new canvas).
C8_NoContentUnchanged ==
    (ac.phase = "done" /\ ContentPixels = {}) =>
        /\ ac.out.same
        /\ ac.out.image = ac.img

\* C8 witness: an image with opaque pixels, all within the tolerance of the
\* crop colour, came back unchanged
C8_Witness ==
    /\ ac.phase = "done"
    /\ ac.out.same
    /\ \E i \in DOMAIN ac.img.data : ac.img.data[i].a > 0

(***************************************************************************)
(* Claims about flipImage                                                  *)
(***************************************************************************)
\* C10: each flip returns an image of the input's width W and height H whose
\* pixel (x, y) is the input's pixel (W-1-x, y) for 'horizontal' and
\* (x, H-1-y) for 'vertical'; two flips in the same direction in a row give
\* back the image they started from.
C10_FlipMirrors ==
    \A k \in 1 .. Len(fl.directions) :
        LET in == fl.trail[k]
            out == fl.trail[k + 1]
            W == in.width
            H == in.height
        IN  /\ out.width = W /\ out.height = H
            /\ DOMAIN out.data = 0 .. W * H - 1
            /\ \A x \in 0 .. W - 1 : \A y \in 0 .. H - 1 :
                  out.data[y * W + x]
                      = IF fl.directions[k] = "horizontal"
                        THEN in.data[y * W + (W - 1 - x)]
                        ELSE in.data[(H - 1 - y) * W + x]
            /\ (k > 1 /\ fl.directions[k - 1] = fl.directions[k])
                  => out = fl.trail[k - 1]

\* C10 witness: an image that is not symmetric was flipped twice
\* horizontally
C10_Witness ==
    /\ fl.directions = <<"horizontal", "horizontal">>
    /\ fl.trail[2] # fl.trail[1]
    /\ fl.trail[3] = fl.trail[1]


\* C1: at most one transform invocation is in flight: every handler
\* invocation in `pending` is awaiting one transform it has called, so there
\* is never more than one of them
C1_OneTransformInFlight == Len(cr.pending) <= 1

InsideImage(box, size) ==
    /\ box.width >= 0 /\ box.height >= 0
    /\ 0 <= box.x /\ 0 <= box.y
    /\ box.x + box.width <= size.width
    /\ box.y + box.height <= size.height

\* C9: every drag step of an interaction whose start box lies inside the image
\* leaves a crop box with non-negative size inside the image, and a step of
\* the move handle leaves the size of the start box
C9_DragClamped ==
    [][\A deltaX \in Deltas, deltaY \in Deltas :
        (/\ CrInteractionMove(deltaX, deltaY)
         /\ InsideImage(cr.interaction.startBox, cr.imageSize))
        => /\ InsideImage(cr'.cropBox, cr'.imageSize)
           /\ cr.interaction.type = "move"
                => /\ cr'.cropBox.width = cr.interaction.startBox.width
                   /\ cr'.cropBox.height = cr.interaction.startBox.height]_vars

\* C11: a Mix is started only on a completely filled grid: the grid that an
\* awaiting handleMixClick has passed to mixImages holds an image in every
\* cell
C11_MixOnlyFullGrid ==
    \A n \in 1 .. Len(app.pending) :
        app.pending[n].op = "mix"
            => \A rc \in DOMAIN app.pending[n].grid :
                    Truthy(app.pending[n].grid[rc])

\* C17: gridImages has exactly `rows` rows of exactly `cols` entries
C17_GridShape == DOMAIN app.gridImages = Cells(app.rows, app.cols)

\* what C19 states of a rows / columns change from state `a` to state `b`
\* with the value newRows, newCols typed (one of them is the old number)
ResizeFrame(a, b, newRows, newCols) ==
    IF newRows = NaN \/ newRows < 1 \/ newCols = NaN \/ newCols < 1
    THEN b = a
    ELSE /\ b.rows = newRows
         /\ b.cols = newCols
         /\ DOMAIN b.gridImages = Cells(newRows, newCols)
         /\ \A rc \in Cells(newRows, newCols) :
                b.gridImages[rc] = IF rc \in DOMAIN a.gridImages
                                   THEN a.gridImages[rc] ELSE NoImage
         /\ b.mixedImage = NoImage
         /\ b = [a EXCEPT !.rows = b.rows, !.cols = b.cols,
                          !.gridImages = b.gridImages,
                          !.mixedImage = b.mixedImage]

\* C19: a rows or columns change keeps every cell that exists in the old
\* and in the new grid, makes every added cell empty, clears the mixed image
\* and leaves the collection and the canvas settings alone; a NaN or < 1
\* value changes nothing
C19_ResizeFrame ==
    [][\A n \in GridInputs :
          /\ AppRowsChange(n) => ResizeFrame(app, app', n, app.cols)
          /\ AppColsChange(n) => ResizeFrame(app, app', app.rows, n)]_vars

\* cell e comes before cell rc in row-major order
RowMajorBefore(e, rc) == e[1] < rc[1] \/ (e[1] = rc[1] /\ e[2] < rc[2])

\* what C20 states of the grid after a bulk import of `urls` into grid g
\* when the images numbered in `errors` failed
BulkFill(g, urls, aspectRatio, errors) ==
    [rc \in DOMAIN g |->
        IF g[rc] # NoImage THEN g[rc]
        ELSE LET i == 1 + Cardinality({e \in DOMAIN g :
                              g[e] = NoImage /\ RowMajorBefore(e, rc)})
             IN  IF i <= Len(urls) /\ i \notin errors
                 THEN LetterboxOf(urls[i], aspectRatio)
                 ELSE NoImage]

IsTrimOf(value, text) ==
    /\ \E i \in 1 .. Len(text) + 1 :
          /\ value = SubSeq(text, i, i + Len(value) - 1)
          /\ i + Len(value) - 1 <= Len(text)
          /\ \A k \in 1 .. Len(text) :
                (k < i \/ k > i + Len(value) - 1) => text[k] = " "
    /\ value # <<>> => value[1] # " " /\ value[Len(value)] # " "

\* C14: enhancePrompt never rejects: it returns the original prompt when
\* generateContent fails and the trimmed response text when it succeeds
C14_EnhancePromptFallback ==
    (gs.fn = "enhancePrompt" /\ gs.phase = "settled")
        => /\ gs.result.kind = "resolved"
           /\ gs.response = "rejected" => gs.result.value = gs.prompt
           /\ gs.response = "text" => IsTrimOf(gs.result.value, gs.text)

\* a response text with spaces around it was returned trimmed
C14_Witness ==
    /\ gs.fn = "enhancePrompt" /\ gs.phase = "settled"
    /\ gs.response = "text"
    /\ gs.text = <<" ", "a", " ">>
    /\ gs.result.value = <<"a">>

\* the number of getVideosOperation requests among the first j events
PollsBefore(j) ==
    Cardinality({i \in 1 .. j - 1 :
                    gs.trail[i] = Request("getVideosOperation")})

\* the last response among the first j events says the operation is running
RunningBefore(j) ==
    \E i \in 1 .. j - 1 :
        /\ gs.trail[i] = [type |-> "response", what |-> "running"]
        /\ \A k \in i + 1 .. j - 1 : gs.trail[k].type # "response"

\* the last response among the first j events says the operation is done
DoneBefore(j) ==
    \E i \in 1 .. j - 1 :
        /\ gs.trail[i] = [type |-> "response", what |-> "done"]
        /\ \A k \in i + 1 .. j - 1 : gs.trail[k].type # "response"

\* C15: generateVideoFromImage reports "Starting video generation..." before
\* the generateVideos request, "Video processing started..." once it is
\* accepted, then, while the operation is not done, waits 10 s, reports the
\* next of the five rotating messages and calls getVideosOperation;
\* "Finalizing video..." only after done without error, "Downloading
\* video..." only after a URI was found, and no URL before done
C15_VideoProtocol ==
    gs.fn = "generateVideoFromImage" =>
        \A j \in 1 .. Len(gs.trail) :
            LET e == gs.trail[j]
            IN  /\ e = Request("generateVideos")
                    => j = 2 /\ gs.trail[1] =
                                    Progress("Starting video generation...")
                /\ e = Progress("Video processing started. This may take a few minutes...")
                    => j = 4 /\ gs.trail[3].type = "response"
                             /\ gs.trail[2] = Request("generateVideos")
                /\ e = Request("getVideosOperation")
                    => /\ j > 6
                       /\ gs.trail[j - 2] = Timeout
                       /\ gs.trail[j - 1] =
                            Progress(messages[(PollsBefore(j) % 5) + 1])
                       /\ RunningBefore(j)
                /\ (e.type = "response" /\ e.what = "running"
                        /\ gs.phase = "settled")
                    => (j < Len(gs.trail) \/ gs.threw # "none")
                /\ e = Progress("Finalizing video...")
                    => DoneBefore(j) /\ gs.operation.done
                                     /\ ~gs.operation.error
                /\ e = Progress("Downloading video...")
                    => /\ gs.operation.videos = "uri"
                       /\ gs.trail[j - 1] = Progress("Finalizing video...")
                /\ gs.result.kind = "resolved"
                    => gs.operation.done /\ DoneBefore(Len(gs.trail))

\* a URL was returned after MaxPolls polls
C15_Witness ==
    /\ gs.fn = "generateVideoFromImage"
    /\ gs.pollCount = MaxPolls
    /\ gs.result.kind = "resolved"

\* C16: generateVideoFromImage rejects whenever the data URL has no base64
\* payload (before any request and any progress message), the finished
\* operation carries an error (even with videos in its response), the
\* response holds no video, the first video has no URI, a poll request
\* throws, or the download response is not ok
C16_VideoRejects ==
    gs.fn = "generateVideoFromImage" =>
        /\ noBase64Data(gs.base64)
            => gs.result.kind = "rejected" /\ gs.trail = <<>>
        /\ (gs.operation.done /\ gs.operation.error)
            => gs.result.kind = "rejected"
        /\ (gs.operation.done
                /\ gs.operation.videos \in {"undefined", "empty", "noUri"})
            => gs.result.kind = "rejected"
        /\ gs.threw = "getVideosOperation" => gs.result.kind = "rejected"
        /\ gs.response = "notOk" => gs.result.kind = "rejected"

\* an operation that finished with an error and a video was rejected
C16_Witness ==
    /\ gs.fn = "generateVideoFromImage"
    /\ gs.phase = "settled"
    /\ gs.operation = [done |-> TRUE, error |-> TRUE, videos |-> "uri"]
    /\ gs.pollCount > 0
    /\ gs.result.kind = "rejected"

\* C18: once the duration is known, 0 <= startTime <= endTime <= duration
C18_TrimRange ==
    vt.duration # 0
        => /\ 0 <= vt.startTime
           /\ vt.startTime <= vt.endTime
           /\ vt.endTime <= vt.duration

\* C12: the frames stored by an export are numbered 0, 1, 2, ... in order,
\* frame k shows the video at startTime + k / fps, none lies outside
\* [startTime, endTime], and a finished export holds all of them
C12_ExportFrames ==
    /\ \A i \in 1 .. Len(vt.zip) :
          /\ vt.zip[i].name = i - 1
          /\ vt.zip[i].shows = vt.export.startTime + (i - 1) * vt.export.step
          /\ vt.zip[i].shows >= vt.export.startTime
          /\ vt.zip[i].shows <= vt.export.endTime
    /\ vt.export.phase = "done"
          => Len(vt.zip) = 1 + (vt.export.endTime - vt.export.startTime)
                                  \div vt.export.step

\* C13: a busy flag that was set is eventually released
C13_BusyReleased == vt.isExporting ~> ~vt.isExporting

\* the cropper was closed with Cancel: onClose has cleared isCropModalOpen
\* only, while onCrop would also have cleared imageToProcess and activeCell
Cancelled == ~app.isCropModalOpen /\ app.imageToProcess # NoImage

\* C21: Cancel discards the edit: once the cropper has been closed with
\* Cancel, gridImages and collection stay what they were when it was opened,
\* also when a Confirm is still in flight
C21_CancelDiscards ==
    [][Cancelled => /\ app'.gridImages = app.gridImages
                    /\ app'.collection = app.collection]_vars

====
